---- MODULE Spec2Model ----
(***************************************************************************)
(* Experiment runner of scikit-learn-extensions.                           *)
(*                                                                         *)
(*   hyperlearn/experiment.py : BaseExperiment, ExtendedExperiment,        *)
(*                              ResamplingExperiment, KaggleCompetition,   *)
(*                              load_experiment                            *)
(*   imbtools/evaluation.py   : count_elements, BinaryExperiment           *)
(*                                                                         *)
(* One experiment object is constructed (Init) and then driven by run(),   *)
(* save() and load_experiment().  run() is split at the points where it    *)
(* can leave: its prologue (guard, validation, reset of results_), one     *)
(* step per iteration of its loop, and its return.                         *)
(***************************************************************************)
EXTENDS Integers, Sequences, FiniteSets, TLC

VARIABLES
    obj,      \* the live experiment object: [class, dict], dict = its __dict__
    frame,    \* the current / last run() invocation: its number, position (pc),
              \* locals, and the way it left (exit: guard, validation, fit, end)
    file,     \* the pickle file written by save(), and that call's argument
    loaded,   \* the object last returned by load_experiment()
    names,    \* a call of count_elements: its argument and its result
    cwd       \* the working directory of the process

vars == <<obj, frame, file, loaded, names, cwd>>

(***************************************************************************)
(* Bounds of the model.                                                    *)
(***************************************************************************)
MaxReps == 2      \* experiment_repetitions ranges over 0..MaxReps
MaxSeed == 2      \* random_state is None or in 0..MaxSeed
MaxRuns == 2      \* number of run() invocations on the object
MaxLen == 2       \* length of the datasets / estimators / classifiers lists
MaxNames == 3     \* length of the list given to count_elements

(***************************************************************************)
(* Python values.                                                          *)
(***************************************************************************)
\* Optional integers: None is the empty tuple, the integer n is <<n>>.
None == <<>>
Some(n) == <<n>>

\* object.__dict__ as a function from the names of the attributes present.
hasattr(d, a) == a \in DOMAIN d
setattr(d, a, v) == [x \in (DOMAIN d) \cup {a} |-> IF x = a THEN v ELSE d[x]]
delattr(d, a) == [x \in (DOMAIN d) \ {a} |-> d[x]]

RECURSIVE Flatten(_)
Flatten(ss) == IF ss = <<>> THEN <<>> ELSE Head(ss) \o Flatten(Tail(ss))

Min(a, b) == IF a <= b THEN a ELSE b

\* zip(a, b): pairs up to the shorter of the two.
zip(a, b) == [i \in 1..Min(Len(a), Len(b)) |-> <<a[i], b[i]>>]

\* Mutant of product3: the combinations of the first seed alone.
product3_first_seed(A, B, C) ==
    Flatten([i \in 1..Min(1, Len(A)) |->
        Flatten([j \in 1..Len(B) |->
            [k \in 1..Len(C) |-> <<A[i], B[j], C[k]>>]])])

\* Mutant of product3: the estimators vary slower than the datasets.
product3_estimators_outer(A, B, C) ==
    Flatten([i \in 1..Len(A) |->
        Flatten([k \in 1..Len(C) |->
            [j \in 1..Len(B) |-> <<A[i], B[j], C[k]>>]])])

\* itertools.product(A, B, C): nested loops, the rightmost advancing fastest.
product3(A, B, C) ==
    Flatten([i \in 1..Len(A) |->
        Flatten([j \in 1..Len(B) |->
            [k \in 1..Len(C) |-> <<A[i], B[j], C[k]>>]])])

\* itertools.product(A, B)
product2(A, B) ==
    Flatten([i \in 1..Len(A) |-> [j \in 1..Len(B) |-> <<A[i], B[j]>>]])

\* All sequences of pairwise different elements of S, of length at most n.
DistinctSeqs(S, n) ==
    UNION {{s \in [1..k -> S] : \A i, j \in 1..k : i # j => s[i] # s[j]} : k \in 0..n}

(***************************************************************************)
(* Inputs of an experiment.                                                *)
(***************************************************************************)
\* (dataset name, (X, y)) tuples
DatasetPool == {[name |-> "d1", Xy |-> "Xy1"], [name |-> "d2", Xy |-> "Xy2"]}

\* (name, estimator, param_grid) tuples; "ridge" is a regressor, and the grid
\* of "lr" names a parameter path that no stage of the estimator has.
ClassifierPool ==
    {[name |-> "svc",   est |-> "SVC",   grid |-> "C"],
     [name |-> "ridge", est |-> "Ridge", grid |-> "empty"],
     [name |-> "lr",    est |-> "LR",    grid |-> "unresolvable"]}

\* (name, resampler, param_grid) tuples; the resampler object may be None.
ResamplerPool ==
    {[name |-> "none",  est |-> "None",  grid |-> "empty"],
     [name |-> "smote", est |-> "SMOTE", grid |-> "k_neighbors"]}

\* The estimator classes for which sklearn.base.is_classifier is true.
Classifiers == {"SVC", "LR"}

\* cv as the caller gives it: None, an integer, or a splitter object. id tells
\* the caller's splitter object ("self.cv") from one that check_cv creates.
CvNone ==
    [kind |-> "None", n_splits |-> 0, shuffle |-> FALSE, random_state |-> None,
     id |-> "self.cv"]
CvInt ==
    [kind |-> "int", n_splits |-> 5, shuffle |-> FALSE, random_state |-> None,
     id |-> "self.cv"]
CvSplitter ==
    [kind |-> "KFold", n_splits |-> 4, shuffle |-> FALSE, random_state |-> None,
     id |-> "self.cv"]
CvSpecs == {CvNone, CvInt, CvSplitter}

RandomStates == {None} \cup {Some(b) : b \in 0..MaxSeed}

DefaultScoring == <<"roc_auc", "f1", "geometric_mean_score">>

\* An estimator spec as ExtendedExperiment / KaggleCompetition take it: one tuple.
Single(t) == [form |-> "tuple", stages |-> <<t>>]

(***************************************************************************)
(* hyperlearn/utils.py: the configuration validator.  The file is not part *)
(* of the sources at hand; these four follow the specification's section   *)
(* 4.1 (Configuration Validator) and section 3 (Data model).               *)
(***************************************************************************)
\* An explicit list of (name, (X, y)) pairs is accepted as it is.
check_datasets(datasets) == datasets

\* A tuple gives its estimator; a list of tuples is chained into a pipeline
\* of (name, estimator) steps in the order of the list.
check_estimators(estimators) ==
    [i \in 1..Len(estimators) |->
        [kind  |-> IF estimators[i].form = "list" THEN "Pipeline" ELSE "estimator",
         steps |-> [j \in 1..Len(estimators[i].stages) |->
                       [name |-> estimators[i].stages[j].name,
                        est  |-> estimators[i].stages[j].est]]]]

\* ConfigurationError on an unresolvable parameter path.
GridsResolvable(estimators) ==
    \A i \in 1..Len(estimators) : \A j \in 1..Len(estimators[i].stages) :
        estimators[i].stages[j].grid # "unresolvable"

\* One grid per estimator, index-aligned with check_estimators: the grid of
\* every stage under the stage's name as prefix.
check_param_grids(estimators) ==
    [i \in 1..Len(estimators) |->
        [j \in 1..Len(estimators[i].stages) |->
            [prefix |-> estimators[i].stages[j].name,
             grid   |-> estimators[i].stages[j].grid]]]

(***************************************************************************)
(* The seed sequence of an experiment.                                     *)
(***************************************************************************)
\* Mutant of resolve_random_states: the repetitions are counted from one.
resolve_random_states_from_one(random_state, repetitions) ==
    IF random_state # None
    THEN [index \in 1..repetitions |-> Some(random_state[1] * index)]
    ELSE [index \in 1..repetitions |-> None]

\* BinaryExperiment._initialize_parameters, the assignment of random_states_:
\* [random_state * index for index in range(repetitions)], or [None] * repetitions.
resolve_random_states(random_state, repetitions) ==
    IF random_state # None
    THEN [index \in 1..repetitions |-> Some(random_state[1] * (index - 1))]
    ELSE [index \in 1..repetitions |-> None]

\* hyperlearn/utils.py, from the specification: the same derivation,
\* base seed times repetition index.
check_random_states(random_state, repetitions) ==
    resolve_random_states(random_state, repetitions)

(***************************************************************************)
(* scikit-learn, as run() uses it.                                         *)
(***************************************************************************)
DefaultFolds == 3

\* sklearn.base.is_classifier: a pipeline has the type of its last step.
is_classifier(estimator) ==
    estimator.steps[Len(estimator.steps)].est \in Classifiers

\* sklearn.model_selection.check_cv: None or an integer give a new unshuffled
\* (Stratified)KFold, a splitter object is returned as it is.
check_cv(cv, y, classifier) ==
    IF cv.kind \in {"None", "int"}
    THEN [kind         |-> IF classifier THEN "StratifiedKFold" ELSE "KFold",
          n_splits     |-> IF cv.kind = "None" THEN DefaultFolds ELSE cv.n_splits,
          shuffle      |-> FALSE,
          random_state |-> None,
          id           |-> "new"]
    ELSE cv

\* GridSearchCV(estimator, param_grid, scoring, cv=cv, refit=False, n_jobs=n_jobs);
\* `run` tells the search objects of one run() invocation from those of another.
\* cv is the splitter as it is when fit runs: a splitter with id "self.cv" is
\* the caller's object, which the later iterations set again (cv_of).
GridSearchCV(estimator, param_grid, scoring, cv, n_jobs, run) ==
    [estimator |-> estimator, param_grid |-> param_grid, scoring |-> scoring,
     cv |-> cv, refit |-> FALSE, n_jobs |-> n_jobs, run |-> run]

\* The splitter of a search object as it is now.
cv_of(gscv) == IF gscv.cv.id = "self.cv" THEN obj.dict.cv ELSE gscv.cv

(***************************************************************************)
(* The object after construction.                                          *)
(***************************************************************************)
Classes == {"ExtendedExperiment", "ResamplingExperiment", "KaggleCompetition"}

\* ExtendedExperiment.__init__ and KaggleCompetition.__init__
EstimatorsInit(class, datasets, estimators, cv, reps, random_state) ==
    [class |-> class,
     dict  |-> [scoring |-> DefaultScoring, cv |-> cv, n_jobs |-> 1,
                estimators |-> estimators, datasets |-> datasets,
                experiment_repetitions |-> reps, random_state |-> random_state]]

\* ResamplingExperiment.__init__
ResamplingInit(datasets, classifiers, resamplers, cv, reps, random_state) ==
    [class |-> "ResamplingExperiment",
     dict  |-> [datasets |-> datasets, classifiers |-> classifiers,
                resamplers |-> resamplers, scoring |-> DefaultScoring, cv |-> cv,
                experiment_repetitions |-> reps, random_state |-> random_state,
                n_jobs |-> 1]]

NoFrame ==
    [pc |-> "idle", run |-> 0, datasets |-> <<>>, combinations |-> <<>>,
     iterations |-> 0, max_value |-> 0, progress |-> 0, error |-> "none",
     exit |-> "none"]

NoFile == [exists |-> FALSE, class |-> "", dict |-> <<>>, pickle_datasets |-> FALSE]
NotLoaded == [class |-> "", dict |-> <<>>]

\* The directory the process is started in.
StartDir == "."

NoNames == [elements |-> <<>>, elements_modified |-> <<>>, returned |-> FALSE]

\* The hyperlearn experiments that can be constructed from the given inputs.
Experiments(DS, CV, REPS, RS, EST, RES) ==
    {EstimatorsInit(class, datasets,
                    [i \in 1..Len(estimators) |-> Single(estimators[i])],
                    cv, reps, random_state) :
        class \in {"ExtendedExperiment", "KaggleCompetition"},
        datasets \in DS, estimators \in EST, cv \in CV, reps \in REPS,
        random_state \in RS}
    \cup
    {ResamplingInit(datasets, classifiers, resamplers, cv, reps, random_state) :
        datasets \in DS, classifiers \in EST, resamplers \in RES, cv \in CV,
        reps \in REPS, random_state \in RS}

InitExperiment ==
    /\ obj \in Experiments(DistinctSeqs(DatasetPool, MaxLen), CvSpecs, 0..MaxReps,
                           RandomStates, DistinctSeqs(ClassifierPool, MaxLen),
                           DistinctSeqs(ResamplerPool, MaxLen))
    /\ frame = NoFrame
    /\ file = NoFile
    /\ loaded = NotLoaded
    /\ names = NoNames
    /\ cwd = StartDir

(***************************************************************************)
(* run()                                                                   *)
(***************************************************************************)
\* Mutant of RunSetup: results_ is created when missing and kept otherwise.
RunSetupKeepResults(d, estimators) ==
    LET datasets == check_datasets(d.datasets)
        d1 == setattr(d, "estimators_", check_estimators(estimators))
        d2 == setattr(d1, "param_grids_", check_param_grids(estimators))
        d3 == setattr(d2, "random_states_",
                      check_random_states(d.random_state, d.experiment_repetitions))
        max_value == Len(d3.random_states_) * Len(datasets) * Len(d3.estimators_)
        combinations == product3(d3.random_states_, datasets,
                                 zip(d3.estimators_, d3.param_grids_))
    IN  IF ~GridsResolvable(estimators)
        THEN /\ obj' = [obj EXCEPT !.dict = d1]
             /\ frame' = [NoFrame EXCEPT !.pc = "raised", !.run = frame.run + 1,
                                         !.datasets = datasets,
                                         !.error = "ConfigurationError",
                                         !.exit = "validation"]
        ELSE /\ obj' = [obj EXCEPT !.dict = IF hasattr(d3, "results_") THEN d3
                                            ELSE setattr(d3, "results_", <<>>)]
             /\ frame' = [NoFrame EXCEPT !.pc = "running", !.run = frame.run + 1,
                                         !.datasets = datasets,
                                         !.combinations = combinations,
                                         !.max_value = max_value]

\* Lines 120-133 of ExtendedExperiment.run (211-226, 301-314 in the other two
\* classes): validation, the progress bar, the combinations, results_ = [].
\* d is the object's __dict__ when check_estimators is reached, estimators
\* the list handed to check_estimators and check_param_grids.
RunSetup(d, estimators) ==
    LET datasets == check_datasets(d.datasets)
        d1 == setattr(d, "estimators_", check_estimators(estimators))
        d2 == setattr(d1, "param_grids_", check_param_grids(estimators))
        d3 == setattr(d2, "random_states_",
                      check_random_states(d.random_state, d.experiment_repetitions))
        max_value == Len(d3.random_states_) * Len(datasets) * Len(d3.estimators_)
        combinations == product3(d3.random_states_, datasets,
                                 zip(d3.estimators_, d3.param_grids_))
    IN  IF ~GridsResolvable(estimators)
        THEN /\ obj' = [obj EXCEPT !.dict = d1]
             /\ frame' = [NoFrame EXCEPT !.pc = "raised", !.run = frame.run + 1,
                                         !.datasets = datasets,
                                         !.error = "ConfigurationError",
                                         !.exit = "validation"]
        ELSE /\ obj' = [obj EXCEPT !.dict = setattr(d3, "results_", <<>>)]
             /\ frame' = [NoFrame EXCEPT !.pc = "running", !.run = frame.run + 1,
                                         !.datasets = datasets,
                                         !.combinations = combinations,
                                         !.max_value = max_value]

\* Mutant of RunGuard: the guard empties results_ before it returns.
RunGuardReset ==
    /\ obj' = [obj EXCEPT !.dict = setattr(obj.dict, "results_", <<>>)]
    /\ frame' = [NoFrame EXCEPT !.pc = "returned", !.run = frame.run + 1,
                                !.exit = "guard"]

\* `if not hasattr(self, 'datasets'): return`
RunGuard ==
    /\ obj' = obj
    /\ frame' = [NoFrame EXCEPT !.pc = "returned", !.run = frame.run + 1,
                                !.exit = "guard"]

\* run(), save() and load_experiment() are called one after the other.
CanCall == frame.pc \in {"idle", "returned", "raised"}

\* ExtendedExperiment.run and KaggleCompetition.run up to the loop.
EstimatorsRunBegin(class) ==
    /\ obj.class = class
    /\ CanCall
    /\ frame.run < MaxRuns
    /\ IF ~hasattr(obj.dict, "datasets")
       THEN RunGuard
       ELSE RunSetup(obj.dict, obj.dict.estimators)
    /\ UNCHANGED <<file, loaded, names, cwd>>

ExtendedRunBegin == EstimatorsRunBegin("ExtendedExperiment")
KaggleRunBegin == EstimatorsRunBegin("KaggleCompetition")

\* Mutant of resampling_estimators: the classifiers vary slowest.
resampling_estimators_by_classifier(resamplers, classifiers) ==
    LET pairs == product2(classifiers, resamplers)
    IN  [i \in 1..Len(pairs) |->
            [form   |-> "list",
             stages |-> IF pairs[i][2].est # "None"
                        THEN <<pairs[i][2], pairs[i][1]>>
                        ELSE <<pairs[i][1]>>]]

\* ResamplingExperiment.run, line 212: one spec per (resampler, classifier).
resampling_estimators(resamplers, classifiers) ==
    LET pairs == product2(resamplers, classifiers)
    IN  [i \in 1..Len(pairs) |->
            [form   |-> "list",
             stages |-> IF pairs[i][1].est # "None"
                        THEN <<pairs[i][1], pairs[i][2]>>
                        ELSE <<pairs[i][2]>>]]

ResamplingRunBegin ==
    /\ obj.class = "ResamplingExperiment"
    /\ CanCall
    /\ frame.run < MaxRuns
    /\ IF ~hasattr(obj.dict, "datasets")
       THEN RunGuard
       ELSE LET estimators == resampling_estimators(obj.dict.resamplers,
                                                    obj.dict.classifiers)
            IN  RunSetup(setattr(obj.dict, "estimators", estimators), estimators)
    /\ UNCHANGED <<file, loaded, names, cwd>>

\* Mutant of RunIteration: the record is appended before gscv.fit is called.
RunIterationAppendFirst(class) ==
    /\ obj.class = class
    /\ frame.pc = "running"
    /\ frame.iterations < Len(frame.combinations)
    /\ LET c == frame.combinations[frame.iterations + 1]
           cv0 == check_cv(obj.dict.cv, c[2].Xy, is_classifier(c[3][1]))
           cv == [cv0 EXCEPT !.shuffle = TRUE, !.random_state = c[1]]
           d == IF obj.dict.cv.kind \in {"None", "int"}
                THEN obj.dict ELSE setattr(obj.dict, "cv", cv)
           gscv == GridSearchCV(c[3][1], c[3][2], d.scoring, cv, d.n_jobs, frame.run)
       IN  /\ obj' = [obj EXCEPT !.dict =
                         setattr(d, "results_", Append(d.results_, <<c[2].name, gscv>>))]
           /\ \E fit_returns \in BOOLEAN :
                 IF fit_returns
                 THEN frame' = [frame EXCEPT !.iterations = frame.iterations + 1,
                                             !.progress = frame.iterations + 1]
                 ELSE frame' = [frame EXCEPT !.pc = "raised",
                                             !.error = "EvaluationError",
                                             !.exit = "fit"]
    /\ UNCHANGED <<file, loaded, names, cwd>>

\* One iteration of the loop of run(): lines 134-142 (227-235, 315-323).
\* gscv.fit either returns or raises.
RunIteration(class) ==
    /\ obj.class = class
    /\ frame.pc = "running"
    /\ frame.iterations < Len(frame.combinations)
    /\ LET c == frame.combinations[frame.iterations + 1]
           random_state == c[1]
           dataset == c[2]
           estimator == c[3][1]
           param_grid == c[3][2]
           cv0 == check_cv(obj.dict.cv, dataset.Xy, is_classifier(estimator))
           cv == [cv0 EXCEPT !.shuffle = TRUE, !.random_state = random_state]
           \* a splitter object given by the caller is the object check_cv returns
           d == IF obj.dict.cv.kind \in {"None", "int"}
                THEN obj.dict ELSE setattr(obj.dict, "cv", cv)
           gscv == GridSearchCV(estimator, param_grid, d.scoring, cv, d.n_jobs, frame.run)
       IN  \E fit_returns \in BOOLEAN :
              IF fit_returns
              THEN /\ obj' = [obj EXCEPT !.dict =
                                 setattr(d, "results_",
                                         Append(d.results_, <<dataset.name, gscv>>))]
                   /\ frame' = [frame EXCEPT !.iterations = frame.iterations + 1,
                                             !.progress = frame.iterations + 1]
              ELSE /\ obj' = [obj EXCEPT !.dict = d]
                   /\ frame' = [frame EXCEPT !.pc = "raised",
                                             !.error = "EvaluationError",
                                             !.exit = "fit"]
    /\ UNCHANGED <<file, loaded, names, cwd>>

ExtendedRunIteration == RunIteration("ExtendedExperiment")
ResamplingRunIteration == RunIteration("ResamplingExperiment")
KaggleRunIteration == RunIteration("KaggleCompetition")

\* The loop is exhausted: run() returns.
RunReturn ==
    /\ frame.pc = "running"
    /\ frame.iterations = Len(frame.combinations)
    /\ frame' = [frame EXCEPT !.pc = "returned", !.exit = "end"]
    /\ UNCHANGED <<obj, file, loaded, names, cwd>>

(***************************************************************************)
(* save() and load_experiment()                                            *)
(***************************************************************************)
\* pickle.dump(self, ...): the class and the __dict__ of the object. The file
\* record also keeps the pickle_datasets argument of the save() that wrote it.
dump(o, pickle_datasets) ==
    [exists |-> TRUE, class |-> o.class, dict |-> o.dict,
     pickle_datasets |-> pickle_datasets]

\* Mutant of save: the test of pickle_datasets is inverted.
save_inverted(o, pickle_datasets) ==
    IF pickle_datasets /\ hasattr(o.dict, "datasets")
    THEN [o EXCEPT !.dict = delattr(o.dict, "datasets")]
    ELSE o

\* BaseExperiment.save, which ExtendedExperiment and ResamplingExperiment run.
save(o, pickle_datasets) ==
    IF ~pickle_datasets /\ hasattr(o.dict, "datasets")
    THEN [o EXCEPT !.dict = delattr(o.dict, "datasets")]
    ELSE o

BaseSave ==
    /\ obj.class \in {"ExtendedExperiment", "ResamplingExperiment"}
    /\ CanCall
    /\ \E pickle_datasets \in BOOLEAN :
          /\ obj' = save(obj, pickle_datasets)
          /\ file' = dump(obj', pickle_datasets)
    /\ UNCHANGED <<frame, loaded, names, cwd>>

\* KaggleCompetition.save, the class's own copy of the method.
kaggle_save(o, pickle_datasets) ==
    IF ~pickle_datasets /\ hasattr(o.dict, "datasets")
    THEN [o EXCEPT !.dict = delattr(o.dict, "datasets")]
    ELSE o

KaggleSave ==
    /\ obj.class = "KaggleCompetition"
    /\ CanCall
    /\ \E pickle_datasets \in BOOLEAN :
          /\ obj' = kaggle_save(obj, pickle_datasets)
          /\ file' = dump(obj', pickle_datasets)
    /\ UNCHANGED <<frame, loaded, names, cwd>>

\* load_experiment: pickle.load, then the isinstance check. ResamplingExperiment
\* and KaggleCompetition are declared as subclasses of BaseExperiment.
load_experiment(f) == [class |-> f.class, dict |-> f.dict]

Load ==
    /\ file.exists
    /\ file.class \in Classes
    /\ CanCall
    /\ loaded' = load_experiment(file)
    /\ UNCHANGED <<obj, frame, file, names, cwd>>

(***************************************************************************)
(* imbtools/evaluation.py: count_elements                                  *)
(***************************************************************************)
\* Names are sequences of characters, so that `element + str(count)` is \o.
Digits == <<"0", "1", "2", "3", "4", "5", "6", "7", "8", "9">>

RECURSIVE str(_)
str(n) == IF n < 10 THEN <<Digits[n + 1]>>
          ELSE str(n \div 10) \o <<Digits[(n % 10) + 1]>>

\* The loop of count_elements over the elements still to be read.
RECURSIVE count_loop(_, _, _)
count_loop(elements, elements_map, elements_modified) ==
    IF elements = <<>> THEN elements_modified
    ELSE LET element == Head(elements)
         IN  IF element \in DOMAIN elements_map
             THEN LET map1 == [elements_map EXCEPT ![element] = @ + 1]
                  IN  count_loop(Tail(elements), map1,
                                 Append(elements_modified, element \o str(map1[element])))
             ELSE count_loop(Tail(elements), setattr(elements_map, element, 1),
                             Append(elements_modified, element))

\* Mutant of count_elements: the suffix counts the repetitions, not the
\* occurrences, so that the second "SVC" becomes "SVC1".
RECURSIVE count_loop_from_one(_, _, _)
count_loop_from_one(elements, elements_map, elements_modified) ==
    IF elements = <<>> THEN elements_modified
    ELSE LET element == Head(elements)
         IN  IF element \in DOMAIN elements_map
             THEN count_loop_from_one(
                      Tail(elements),
                      [elements_map EXCEPT ![element] = @ + 1],
                      Append(elements_modified, element \o str(elements_map[element])))
             ELSE count_loop_from_one(Tail(elements), setattr(elements_map, element, 1),
                                      Append(elements_modified, element))

count_elements_from_one(elements) == count_loop_from_one(elements, <<>>, <<>>)

count_elements(elements) == count_loop(elements, <<>>, <<>>)

SVC == <<"S", "V", "C">>
SVC2 == <<"S", "V", "C", "2">>
KNN == <<"K", "N", "N">>
SMOTE == <<"S", "M", "O", "T", "E">>
NoneType == <<"N", "o", "n", "e", "T", "y", "p", "e">>

NamePool == {SVC, SVC2, KNN}

InitNames ==
    /\ names \in {[elements |-> e, elements_modified |-> <<>>, returned |-> FALSE] :
                    e \in UNION {[1..k -> NamePool] : k \in 0..MaxNames}}
    /\ obj = [class |-> "none", dict |-> <<>>]
    /\ frame = NoFrame
    /\ file = NoFile
    /\ loaded = NotLoaded
    /\ cwd = StartDir

CountElements ==
    /\ ~names.returned
    /\ obj.class = "none"
    /\ names' = [names EXCEPT !.elements_modified = count_elements(names.elements),
                              !.returned = TRUE]
    /\ UNCHANGED <<obj, frame, file, loaded, cwd>>

(***************************************************************************)
(* imbtools/evaluation.py: BinaryExperiment                                *)
(***************************************************************************)
\* An estimator object of the experiment: its class and its random_state.
Object(class) == [class |-> class, random_state |-> None]

\* The datasets argument of BinaryExperiment: a dictionary name -> (X, y),
\* held as the sequence of its items in the order of its keys, or a str, the
\* path of a directory of csv files.
Dict(items) == [type |-> "dict", value |-> items]
Str(path) == [type |-> "str", value |-> path]
isinstance(x, type) == x.type = type

\* The file system: the directories that exist and the files of each; a file
\* has a name (stem and extension) and, when it is a csv file, the table that
\* pd.read_csv makes of it, split into X (all columns but the last) and y.
Directories ==
    [path \in {"data", "empty"} |->
        IF path = "data"
        THEN {[stem |-> "d1", ext |-> ".csv", Xy |-> "Xy1"],
              [stem |-> "d2", ext |-> ".csv", Xy |-> "Xy2"],
              [stem |-> "notes", ext |-> ".txt", Xy |-> ""]}
        ELSE {[stem |-> "notes", ext |-> ".txt", Xy |-> ""]}]

\* Paths a caller may give: two directories and a path that does not exist.
PathPool == DOMAIN Directories \cup {"missing"}

\* os.listdir(): the files of the directory in an arbitrary order.
listdir(path) ==
    {l \in DistinctSeqs(Directories[path], Cardinality(Directories[path])) :
        Len(l) = Cardinality(Directories[path])}

\* [csv_file for csv_file in listdir() if match('^.+\.csv$', csv_file)]
csv_files(listing) == SelectSeq(listing, LAMBDA f : f.ext = ".csv")

\* The loop of lines 51-55: one item per csv file, keyed by the file name
\* without ".csv" (the stems here hold no other match of the pattern).
read_datasets(listing) ==
    LET files == csv_files(listing)
    IN  [i \in 1..Len(files) |-> [name |-> files[i].stem, Xy |-> files[i].Xy]]

\* BinaryExperiment.__init__
BinaryInit(oversampling_methods, classifiers, metrics, datasets, reps, random_state) ==
    [class |-> "BinaryExperiment",
     dict  |-> [oversampling_methods |-> oversampling_methods,
                classifiers |-> classifiers, metrics |-> metrics,
                datasets |-> datasets, n_splits |-> DefaultFolds,
                experiment_repetitions |-> reps, random_state |-> random_state]]

BinNoFrame ==
    [pc |-> "idle", run |-> 0, error |-> "none",
     n_experiment |-> 0, n_clf |-> 0, n_om |-> 0, n_scorer |-> 0, n_dataset |-> 0,
     random_state |-> None,
     cv |-> [kind |-> "none", n_splits |-> 0, shuffle |-> FALSE, random_state |-> None,
             id |-> "new"],
     clf |-> [steps |-> <<>>, depth |-> 0],
     calls |-> 0,
     call |-> [estimator |-> [steps |-> <<>>, depth |-> 0],
               cv |-> [kind |-> "none", n_splits |-> 0, shuffle |-> FALSE,
                       random_state |-> None, id |-> "new"],
               scoring |-> "", dataset |-> ""]]

MetricLists == {<<"f1_score">>, <<"f1_score", "roc_auc_score">>}

InitBinary ==
    /\ obj \in {BinaryInit([i \in 1..Len(oms) |-> Object(oms[i])],
                           [i \in 1..Len(clfs) |-> Object(clfs[i])],
                           metrics, datasets, reps, random_state) :
                  oms \in DistinctSeqs({SMOTE, NoneType}, MaxLen),
                  clfs \in DistinctSeqs({SVC, KNN}, MaxLen),
                  metrics \in MetricLists,
                  datasets \in {Dict(items) : items \in DistinctSeqs(DatasetPool, MaxLen)}
                               \cup {Str(path) : path \in PathPool},
                  reps \in 0..MaxReps,
                  random_state \in {None, Some(MaxSeed)}}
    /\ frame = BinNoFrame
    /\ file = NoFile
    /\ loaded = NotLoaded
    /\ names = NoNames
    /\ cwd = StartDir

\* Line 46 of _initialize_parameters.
initialize_scorers(d) ==
    setattr(d, "scorers_", [i \in 1..Len(d.metrics) |-> [make_scorer |-> d.metrics[i]]])

\* BinaryExperiment._initialize_parameters when it does not raise; listing is
\* what listdir() returns, read only when datasets is a str.
initialize_parameters(d, listing) ==
    LET d1 == initialize_scorers(d)
        d2 == IF isinstance(d.datasets, "str")
              THEN setattr(d1, "datasets", Dict(read_datasets(listing)))
              ELSE d1
        d3 == setattr(d2, "random_states_",
                      resolve_random_states(d.random_state, d.experiment_repetitions))
        d4 == setattr(d3, "cv_scores_", <<>>)
        d5 == setattr(d4, "classifiers_names_",
                      count_elements([i \in 1..Len(d.classifiers) |->
                                         d.classifiers[i].class]))
        d6 == setattr(d5, "oversampling_methods_names_",
                      count_elements([i \in 1..Len(d.oversampling_methods) |->
                                         d.oversampling_methods[i].class]))
        d7 == setattr(d6, "metrics_names_", d.metrics)
    IN  setattr(d7, "datasets_names_",
                [i \in 1..Len(d2.datasets.value) |-> d2.datasets.value[i].name])

\* StratifiedKFold(n_splits=n_splits, random_state=random_state): shuffle is
\* not given and keeps its default.
StratifiedKFold(n_splits, random_state) ==
    [kind |-> "StratifiedKFold", n_splits |-> n_splits, shuffle |-> FALSE,
     random_state |-> random_state, id |-> "new"]

\* imblearn.pipeline.make_pipeline(oversampling_method, clf): a pipeline whose
\* last step is clf, itself a pipeline when clf is one.
make_pipeline(oversampling_method, clf) ==
    [steps |-> <<oversampling_method.class>> \o clf.steps, depth |-> clf.depth + 1]

\* run(): the call of _initialize_parameters.
BinaryRunBegin ==
    /\ obj.class = "BinaryExperiment"
    /\ CanCall
    /\ frame.run < MaxRuns
    /\ LET datasets == obj.dict.datasets
           f == [BinNoFrame EXCEPT !.run = frame.run + 1]
       IN  IF isinstance(datasets, "str")
           THEN IF datasets.value \in DOMAIN Directories
                THEN \* chdir(self.datasets), then the csv files of listdir()
                     \E listing \in listdir(datasets.value) :
                        /\ obj' = [obj EXCEPT
                                     !.dict = initialize_parameters(obj.dict, listing)]
                        /\ frame' = [f EXCEPT !.pc = "for_experiment"]
                        /\ cwd' = datasets.value
                ELSE \* chdir raises: only scorers_ has been assigned
                     /\ obj' = [obj EXCEPT !.dict = initialize_scorers(obj.dict)]
                     /\ frame' = [f EXCEPT !.pc = "raised",
                                           !.error = "FileNotFoundError"]
                     /\ cwd' = cwd
           ELSE /\ obj' = [obj EXCEPT !.dict = initialize_parameters(obj.dict, <<>>)]
                /\ frame' = [f EXCEPT !.pc = "for_experiment"]
                /\ cwd' = cwd
    /\ UNCHANGED <<file, loaded, names>>

\* for experiment_ind, random_state in enumerate(self.random_states_)
BinaryForExperiment ==
    /\ obj.class = "BinaryExperiment"
    /\ frame.pc = "for_experiment"
    /\ IF frame.n_experiment < Len(obj.dict.random_states_)
       THEN LET random_state == obj.dict.random_states_[frame.n_experiment + 1]
            IN  frame' = [frame EXCEPT
                            !.n_experiment = @ + 1,
                            !.random_state = random_state,
                            !.cv = StratifiedKFold(obj.dict.n_splits, random_state),
                            !.n_clf = 0,
                            !.pc = "for_clf"]
       ELSE frame' = [frame EXCEPT !.pc = "returned"]
    /\ UNCHANGED <<obj, file, loaded, names, cwd>>

\* for clf_ind, clf in enumerate(self.classifiers): clf.set_params(...)
BinaryForClf ==
    /\ obj.class = "BinaryExperiment"
    /\ frame.pc = "for_clf"
    /\ IF frame.n_clf < Len(obj.dict.classifiers)
       THEN LET i == frame.n_clf + 1
                clf == [obj.dict.classifiers[i] EXCEPT
                            !.random_state = frame.random_state]
            IN  /\ obj' = [obj EXCEPT !.dict.classifiers[i] = clf]
                /\ frame' = [frame EXCEPT
                               !.n_clf = i,
                               !.clf = [steps |-> <<clf.class>>, depth |-> 0],
                               !.n_om = 0,
                               !.pc = "for_om"]
       ELSE /\ frame' = [frame EXCEPT !.pc = "for_experiment"]
            /\ obj' = obj
    /\ UNCHANGED <<file, loaded, names, cwd>>

\* for oversampling_method_ind, oversampling_method in enumerate(...):
\* oversampling_method.set_params(...), an AttributeError on None.
BinaryForOm ==
    /\ obj.class = "BinaryExperiment"
    /\ frame.pc = "for_om"
    /\ IF frame.n_om < Len(obj.dict.oversampling_methods)
       THEN LET i == frame.n_om + 1
                om == obj.dict.oversampling_methods[i]
            IN  IF om.class = NoneType
                THEN /\ frame' = [frame EXCEPT !.n_om = i, !.pc = "raised",
                                               !.error = "AttributeError"]
                     /\ obj' = obj
                ELSE /\ obj' = [obj EXCEPT !.dict.oversampling_methods[i].random_state =
                                              frame.random_state]
                     /\ frame' = [frame EXCEPT !.n_om = i, !.n_scorer = 0,
                                               !.pc = "for_scorer"]
       ELSE /\ frame' = [frame EXCEPT !.pc = "for_clf"]
            /\ obj' = obj
    /\ UNCHANGED <<file, loaded, names, cwd>>

\* for scorer_ind, scorer in enumerate(self.scorers_)
BinaryForScorer ==
    /\ obj.class = "BinaryExperiment"
    /\ frame.pc = "for_scorer"
    /\ IF frame.n_scorer < Len(obj.dict.scorers_)
       THEN frame' = [frame EXCEPT !.n_scorer = @ + 1, !.n_dataset = 0,
                                   !.pc = "for_dataset"]
       ELSE frame' = [frame EXCEPT !.pc = "for_om"]
    /\ UNCHANGED <<obj, file, loaded, names, cwd>>

\* for dataset_ind, (X, y) in enumerate(self.datasets.values()): lines 75-84.
\* cross_val_score either returns the scores or raises.
BinaryForDataset ==
    /\ obj.class = "BinaryExperiment"
    /\ frame.pc = "for_dataset"
    /\ IF frame.n_dataset < Len(obj.dict.datasets.value)
       THEN LET i == frame.n_dataset + 1
                oversampling_method == obj.dict.oversampling_methods[frame.n_om]
                clf == IF oversampling_method.class # NoneType
                       THEN make_pipeline(oversampling_method, frame.clf)
                       ELSE frame.clf
                call == [estimator |-> clf, cv |-> frame.cv,
                         scoring |-> obj.dict.scorers_[frame.n_scorer].make_scorer,
                         dataset |-> obj.dict.datasets.value[i].name]
                f1 == [frame EXCEPT !.n_dataset = i, !.clf = clf, !.call = call,
                                    !.calls = @ + 1]
            IN  \E returns \in BOOLEAN :
                   IF returns
                   THEN /\ obj' = [obj EXCEPT !.dict.cv_scores_ = Append(@, "cv_score")]
                        /\ frame' = f1
                   ELSE /\ obj' = obj
                        /\ frame' = [f1 EXCEPT !.pc = "raised",
                                               !.error = "EvaluationError"]
       ELSE /\ frame' = [frame EXCEPT !.pc = "for_scorer"]
            /\ obj' = obj
    /\ UNCHANGED <<file, loaded, names, cwd>>

(***************************************************************************)
(* Specifications                                                          *)
(***************************************************************************)
\* run() of the four experiment classes on every input, and count_elements.
Init == InitExperiment \/ InitBinary \/ InitNames

Next ==
    \/ ExtendedRunBegin
    \/ ResamplingRunBegin
    \/ KaggleRunBegin
    \/ ExtendedRunIteration
    \/ ResamplingRunIteration
    \/ KaggleRunIteration
    \/ RunReturn
    \/ BinaryRunBegin
    \/ BinaryForExperiment
    \/ BinaryForClf
    \/ BinaryForOm
    \/ BinaryForScorer
    \/ BinaryForDataset
    \/ CountElements

Spec == Init /\ [][Next]_vars

\* run(), save() and load_experiment() on the hyperlearn experiments, in any
\* order, for experiments of one repetition with one seed.
InitPersist ==
    /\ obj \in Experiments(DistinctSeqs(DatasetPool, MaxLen), {CvNone}, {1},
                           {Some(MaxSeed)}, DistinctSeqs(ClassifierPool, MaxLen),
                           {<<>>} \cup {s \in DistinctSeqs(ResamplerPool, MaxLen) :
                                          Len(s) = Cardinality(ResamplerPool)})
    /\ frame = NoFrame
    /\ file = NoFile
    /\ loaded = NotLoaded
    /\ names = NoNames
    /\ cwd = StartDir

NextPersist ==
    \/ ExtendedRunBegin
    \/ ResamplingRunBegin
    \/ KaggleRunBegin
    \/ ExtendedRunIteration
    \/ ResamplingRunIteration
    \/ KaggleRunIteration
    \/ RunReturn
    \/ BaseSave
    \/ KaggleSave
    \/ Load

SpecPersist == InitPersist /\ [][NextPersist]_vars

(***************************************************************************)
(* Properties                                                              *)
(***************************************************************************)
IsHyperlearn == obj.class \in Classes

\* The last run() invocation of a hyperlearn experiment reached its loop.
ReachedLoop == IsHyperlearn /\ frame.exit \in {"none", "fit", "end"} /\ frame.pc # "idle"

\* The k-th record of results_ is the record of the combination c, evaluated
\* on splits of c's seed.
RecordOf(k, c) ==
    /\ obj.dict.results_[k][1] = c[2].name
    /\ obj.dict.results_[k][2].estimator = c[3][1]
    /\ obj.dict.results_[k][2].param_grid = c[3][2]
    /\ obj.dict.results_[k][2].cv.random_state = c[1]

\* C1: the total given to the progress bar is len(random_states_) *
\* len(datasets) * len(estimators_), which is repetitions * datasets *
\* estimator specs; every completed iteration leaves one record, and when
\* run() returns from its loop len(results_) is that total.
C1_TotalIterations ==
    ReachedLoop =>
        /\ frame.max_value = Len(obj.dict.random_states_) * Len(frame.datasets)
                                * Len(obj.dict.estimators_)
        /\ frame.max_value = obj.dict.experiment_repetitions * Len(obj.dict.datasets)
                                * Len(obj.dict.estimators)
        /\ Len(obj.dict.results_) = frame.iterations
        /\ frame.progress = frame.iterations
        /\ frame.iterations <= frame.max_value
        /\ frame.exit = "end" => Len(obj.dict.results_) = frame.max_value

C1_Witness ==
    /\ obj.class = "ResamplingExperiment"
    /\ frame.exit = "end"
    /\ frame.max_value = MaxReps * MaxLen * MaxLen
    /\ Len(obj.dict.results_) = frame.max_value

\* C2: at every point of run() the k-th record of results_ (k from 0) is the
\* one of seed k div (D*E), dataset (k div E) mod D and estimator k mod E, each
\* index taken in its list as declared.
C2_NestedOrder ==
    ReachedLoop =>
        LET D == Len(obj.dict.datasets)
            E == Len(obj.dict.estimators_)
        IN  \A k \in 0..(Len(obj.dict.results_) - 1) :
               RecordOf(k + 1,
                        <<obj.dict.random_states_[(k \div (D * E)) + 1],
                          obj.dict.datasets[((k \div E) % D) + 1],
                          <<obj.dict.estimators_[(k % E) + 1],
                            obj.dict.param_grids_[(k % E) + 1]>>>>)

C2_Witness ==
    /\ obj.class = "ExtendedExperiment"
    /\ frame.exit = "end"
    /\ obj.dict.random_state = Some(1)
    /\ Len(obj.dict.datasets) = 2
    /\ Len(obj.dict.estimators) = 2
    /\ Len(obj.dict.results_) = 8

\* C3: when gscv.fit raises, run() is over with that error: results_ holds the
\* records of the combinations before the failing one, in their order, and
\* the only step that follows is a new invocation.
C3_State ==
    (IsHyperlearn /\ frame.exit = "fit") =>
        /\ frame.pc = "raised"
        /\ frame.error = "EvaluationError"
        /\ frame.iterations < Len(frame.combinations)
        /\ Len(obj.dict.results_) = frame.iterations
        /\ \A k \in 1..frame.iterations : RecordOf(k, frame.combinations[k])

C3_FailurePropagates ==
    /\ []C3_State
    /\ [][(IsHyperlearn /\ frame.exit = "fit") => frame'.run = frame.run + 1]_vars

C3_Witness ==
    /\ IsHyperlearn
    /\ frame.exit = "fit"
    /\ frame.iterations = 3
    /\ Len(obj.dict.results_) = 3

\* results_ of an object, when it has one.
Results(d) == IF hasattr(d, "results_") THEN <<d.results_>> ELSE <<>>

\* A step that is the prologue of a new run() invocation.
RunCalled == IsHyperlearn /\ frame'.run = frame.run + 1

\* C4 as stated: when run() has returned or raised, results_ holds no record
\* of an earlier invocation.
C4_Original ==
    (IsHyperlearn /\ frame.pc \in {"returned", "raised"} /\ hasattr(obj.dict, "results_")) =>
        \A k \in 1..Len(obj.dict.results_) : obj.dict.results_[k][2].run = frame.run

\* C4, amended: an invocation that passes the datasets guard and validation
\* replaces results_, which from then on holds records of that invocation
\* alone; one that returns at the guard or fails validation leaves results_
\* as it was, records of earlier invocations included.
C4_State ==
    ReachedLoop =>
        \A k \in 1..Len(obj.dict.results_) : obj.dict.results_[k][2].run = frame.run

C4_ReplacedOnRun ==
    /\ []C4_State
    /\ [][(RunCalled /\ frame'.exit \in {"guard", "validation"}) =>
             Results(obj'.dict) = Results(obj.dict)]_vars
    /\ [][(RunCalled /\ frame'.exit = "none") => obj'.dict.results_ = <<>>]_vars

C4_Witness ==
    /\ IsHyperlearn
    /\ frame.run = 2
    /\ frame.exit = "end"
    /\ Len(obj.dict.results_) = 2
    /\ file.exists
    /\ hasattr(file.dict, "results_")
    /\ Len(file.dict.results_) = 2
    /\ file.dict.results_[1][2].run = 1

\* C5 as stated, for the calls that do not raise: a run() that finds no
\* datasets attribute or an empty dataset collection neither creates nor
\* assigns results_.
C5_Original ==
    [][(RunCalled /\ frame'.pc # "raised"
          /\ (~hasattr(obj.dict, "datasets") \/ obj.dict.datasets = <<>>)) =>
            Results(obj'.dict) = Results(obj.dict)]_vars

\* C5, amended: without a datasets attribute run() returns at once, without
\* raising, and leaves the object as it was; with an empty dataset collection
\* it passes the guard and, unless validation raises, assigns results_ the
\* empty list, evaluates no combination and returns without raising.
C5_EmptyState ==
    (ReachedLoop /\ frame.datasets = <<>>) =>
        /\ frame.exit \in {"none", "end"}
        /\ frame.combinations = <<>>
        /\ frame.iterations = 0
        /\ obj.dict.results_ = <<>>

C5_NoDatasets ==
    /\ [][(RunCalled /\ ~hasattr(obj.dict, "datasets")) =>
             /\ obj' = obj
             /\ frame'.pc = "returned"
             /\ frame'.error = "none"
             /\ frame'.iterations = 0]_vars
    /\ [][(RunCalled /\ hasattr(obj.dict, "datasets") /\ frame'.pc # "raised") =>
             /\ frame'.pc = "running"
             /\ hasattr(obj'.dict, "results_")
             /\ obj'.dict.results_ = <<>>]_vars
    /\ []C5_EmptyState

C5_Witness ==
    /\ IsHyperlearn
    /\ frame.exit = "guard"
    /\ frame.pc = "returned"
    /\ ~hasattr(obj.dict, "datasets")
    /\ hasattr(obj.dict, "results_")
    /\ Len(obj.dict.results_) = 2

\* C6: save(filename, pickle_datasets=False) removes the datasets attribute of
\* the live object and nothing else; save(filename, pickle_datasets=True)
\* changes nothing, and the object in the file has the datasets the live
\* object has; either way results_ of the live object and of the object that
\* load_experiment returns are results_ as they were before the save.
SaveCalled == IsHyperlearn /\ frame' = frame /\ loaded' = loaded

C6_SaveLoad ==
    /\ [][SaveCalled =>
             /\ file'.exists
             /\ obj'.class = obj.class
             /\ Results(obj'.dict) = Results(obj.dict)
             /\ Results(load_experiment(file').dict) = Results(obj.dict)
             /\ ~file'.pickle_datasets =>
                   /\ DOMAIN obj'.dict = (DOMAIN obj.dict) \ {"datasets"}
                   /\ \A a \in DOMAIN obj'.dict : obj'.dict[a] = obj.dict[a]
                   /\ ~hasattr(load_experiment(file').dict, "datasets")
             /\ file'.pickle_datasets =>
                   /\ obj' = obj
                   /\ hasattr(obj.dict, "datasets") =>
                         /\ hasattr(load_experiment(file').dict, "datasets")
                         /\ load_experiment(file').dict.datasets = obj.dict.datasets]_vars
    /\ [][(IsHyperlearn /\ loaded' # loaded) =>
             /\ loaded'.class = file.class
             /\ DOMAIN loaded'.dict = DOMAIN file.dict
             /\ Results(loaded'.dict) = Results(file.dict)]_vars

C6_Witness ==
    /\ IsHyperlearn
    /\ file.exists
    /\ ~file.pickle_datasets
    /\ hasattr(loaded.dict, "results_")
    /\ Len(loaded.dict.results_) = 2
    /\ ~hasattr(loaded.dict, "datasets")
    /\ ~hasattr(obj.dict, "datasets")
    /\ obj.dict.results_ = loaded.dict.results_

SVC1 == <<"S", "V", "C", "1">>

\* The entries of a list of names are pairwise different.
PairwiseDistinct(s) == \A i, j \in 1..Len(s) : i # j => s[i] # s[j]

EndsWithDigit(name) ==
    name # <<>> /\ \E k \in 1..Len(Digits) : name[Len(name)] = Digits[k]

\* C7 as stated: the result of count_elements has the length of its
\* argument and pairwise different entries, first occurrences are kept,
\* repeated ones get a suffix, and two "SVC" become "SVC" and "SVC1".
C7_Original ==
    names.returned =>
        /\ Len(names.elements_modified) = Len(names.elements)
        /\ PairwiseDistinct(names.elements_modified)
        /\ \A i \in 1..Len(names.elements) :
              IF \A j \in 1..(i - 1) : names.elements[j] # names.elements[i]
              THEN names.elements_modified[i] = names.elements[i]
              ELSE /\ Len(names.elements_modified[i]) > Len(names.elements[i])
                   /\ SubSeq(names.elements_modified[i], 1, Len(names.elements[i]))
                         = names.elements[i]
        /\ names.elements = <<SVC, SVC>> => names.elements_modified = <<SVC, SVC1>>

\* C7, amended: the result has the length of the argument; the first
\* occurrence of a name is kept and its n-th occurrence, n >= 2, becomes the
\* name followed by n, so that two "SVC" become "SVC" and "SVC2"; the results
\* of equal names are pairwise different, and all the results are when no
\* name of the argument ends with a digit.
C7_CountIndex ==
    names.returned =>
        /\ Len(names.elements_modified) = Len(names.elements)
        /\ \A i \in 1..Len(names.elements) :
              LET n == Cardinality({j \in 1..i : names.elements[j] = names.elements[i]})
              IN  names.elements_modified[i] =
                     IF n = 1 THEN names.elements[i] ELSE names.elements[i] \o str(n)
        /\ names.elements = <<SVC, SVC>> => names.elements_modified = <<SVC, SVC2>>
        /\ \A i, j \in 1..Len(names.elements) :
              (i # j /\ names.elements[i] = names.elements[j]) =>
                  names.elements_modified[i] # names.elements_modified[j]
        /\ (\A i \in 1..Len(names.elements) : ~EndsWithDigit(names.elements[i])) =>
              PairwiseDistinct(names.elements_modified)

C7_Witness ==
    /\ names.returned
    /\ names.elements = <<SVC, SVC>>
    /\ names.elements_modified = <<SVC, SVC2>>

\* C8: ResamplingExperiment.run builds one spec per pair of a resampler and a
\* classifier, the resamplers varying slowest: the classifier alone when the
\* resampler object is None, else the chain (resampler, classifier).
C8_Synthesis ==
    (obj.class = "ResamplingExperiment" /\ hasattr(obj.dict, "estimators")) =>
        LET R == obj.dict.resamplers
            C == obj.dict.classifiers
            E == obj.dict.estimators
        IN  /\ Len(E) = Len(R) * Len(C)
            /\ \A r \in 1..Len(R) : \A c \in 1..Len(C) :
                  E[(r - 1) * Len(C) + c].stages =
                      IF R[r].est = "None" THEN <<C[c]>> ELSE <<R[r], C[c]>>

C8_Witness ==
    /\ obj.class = "ResamplingExperiment"
    /\ hasattr(obj.dict, "estimators")
    /\ Len(obj.dict.resamplers) = 2
    /\ Len(obj.dict.classifiers) = 2
    /\ Len(obj.dict.estimators[1].stages) = 2
    /\ Len(obj.dict.estimators[3].stages) = 1

\* C9: random_states_ has experiment_repetitions elements: all None for the
\* base seed None, and b * i at repetition index i (from 0) for the base seed
\* b, so 0 at index 0, whenever and however often it is resolved.
C9_SeedSequence ==
    (obj.class \in Classes \cup {"BinaryExperiment"} /\ hasattr(obj.dict, "random_states_")) =>
        LET rs == obj.dict.random_states_
            n  == obj.dict.experiment_repetitions
            b  == obj.dict.random_state
        IN  /\ Len(rs) = n
            /\ b = None => \A i \in 1..n : rs[i] = None
            /\ b # None => \A i \in 0..(n - 1) : rs[i + 1] = Some(b[1] * i)
            /\ (b # None /\ n >= 1) => rs[1] = Some(0)

C9_Witness ==
    /\ obj.class = "BinaryExperiment"
    /\ frame.run = 2
    /\ hasattr(obj.dict, "random_states_")
    /\ obj.dict.random_state = Some(2)
    /\ obj.dict.random_states_ = <<Some(0), Some(2)>>

\* C10 as stated: in every experiment class the splitter that evaluates a
\* combination shuffles and has the combination's seed as random_state.
C10_Original ==
    /\ ReachedLoop =>
          \A k \in 1..Len(obj.dict.results_) :
             /\ obj.dict.results_[k][2].cv.shuffle
             /\ obj.dict.results_[k][2].cv.random_state = frame.combinations[k][1]
    /\ (obj.class = "BinaryExperiment" /\ frame.calls > 0) =>
          /\ frame.call.cv.shuffle
          /\ frame.call.cv.random_state = frame.random_state

\* The part of C10 that holds: the three classes of hyperlearn.
C10_Hyperlearn ==
    ReachedLoop =>
        \A k \in 1..Len(obj.dict.results_) :
           /\ obj.dict.results_[k][2].cv.shuffle
           /\ obj.dict.results_[k][2].cv.random_state = frame.combinations[k][1]

\* An evaluation of BinaryExperiment.run has just been made: cross_val_score
\* was called for the current (seed, classifier, oversampling method, scorer,
\* dataset) and returned or raised.
BinaryCalled ==
    /\ obj.class = "BinaryExperiment"
    /\ frame.n_dataset > 0
    /\ \/ frame.pc = "for_dataset"
       \/ frame.pc = "raised" /\ frame.error = "EvaluationError"

\* C11 as stated: in every iteration of BinaryExperiment.run the estimator
\* passed to cross_val_score is the current classifier alone when the
\* oversampling method is None, and otherwise the chain of exactly two stages,
\* the current oversampling method then the current classifier of
\* self.classifiers, with no stage left from earlier iterations.
C11_Original ==
    BinaryCalled =>
        LET classifier == obj.dict.classifiers[frame.n_clf]
            oversampling_method == obj.dict.oversampling_methods[frame.n_om]
        IN  frame.call.estimator =
               IF oversampling_method.class = NoneType
               THEN [steps |-> <<classifier.class>>, depth |-> 0]
               ELSE [steps |-> <<oversampling_method.class, classifier.class>>,
                     depth |-> 1]

\* What run() does instead: the oversampling method of an evaluation is never
\* None (set_params has raised before), and the estimator of the k-th
\* evaluation since the classifier was taken from self.classifiers is that
\* classifier under k nested pipelines.
C11_Accumulated ==
    BinaryCalled =>
        LET k == (frame.n_om - 1) * Len(obj.dict.scorers_)
                                   * Len(obj.dict.datasets.value)
                 + (frame.n_scorer - 1) * Len(obj.dict.datasets.value)
                 + frame.n_dataset
        IN  /\ obj.dict.oversampling_methods[frame.n_om].class # NoneType
            /\ frame.call.estimator.depth = k
            /\ Len(frame.call.estimator.steps) = k + 1
            /\ frame.call.estimator.steps[k + 1] =
                  obj.dict.classifiers[frame.n_clf].class

====
